---- MODULE Spec2Model ----
(***************************************************************************)
(* Model of scripts/generate_and_post.py: the daily run main() with its    *)
(* three persisted stores (used_artworks.json, posted_log.json,            *)
(* generated_posts.json), the Met Museum search source, the post generator *)
(* and the Facebook publisher.                                             *)
(*                                                                         *)
(* One invocation of main() is a process p.  Its local variables are       *)
(* functions of p; the three files are shared.  Every write of a file is   *)
(* one step, so a process can be killed between any two writes; a kill     *)
(* inside a write leaves the file malformed.                               *)
(*                                                                         *)
(* Of scripts/artist_scraper.py the module models query_wikidata and the   *)
(* three _add_to_* operations on the term lists of the database.           *)
(***************************************************************************)
EXTENDS Integers, Sequences, FiniteSets, TLC

(* ------------------------------ bounds -------------------------------- *)

\* number of kills of an invocation in one behaviour
MaxKills == 1
\* number of single failures of the search source (a search or a fetch) in
\* one behaviour; an outage of the search endpoint is not counted
MaxFaults == 1

\* The three sizes of main(), scaled down so that a few invocations fill,
\* drain and refill the queue; the program's values are 7, 14 and 50.
\* `if len(queue) < 7`
LOW_QUEUE == 2
\* `while len(new_posts) < 14`, `if len(new_posts) >= 14`
NEW_POSTS_TARGET == 3
\* `max_attempts = 50`
max_attempts == 2

\* artist_scraper: the largest max_retries a call of query_wikidata is given
\* (the default is 3)
MaxRetries == 3
\* artist_scraper: the longest list of items given to one _add_to_* call
MaxItems == 2
\* artist_scraper: the number of terms the three lists hold together
MaxTerms == 3

(* ------------------------- program constants -------------------------- *)

\* `met.search_artworks(query, limit=20)`
limit == 20

(* --------------------------- the environment -------------------------- *)

Procs == {1, 2}

NoId == 0
NoPost == [object_id |-> NoId, artist |-> "", type |-> ""]

\* met.search_queries: the terms _load_search_database returns
search_queries == {"Rembrandt", "Vermeer"}

\* The collection the search endpoint answers from: objectIDs per term.
objectIDs(query) ==
    IF query = "Rembrandt" THEN <<1, 4, 2>> ELSE <<2, 5, 3>>

\* The object endpoint: 4 has no primaryImage, 5 has no artistDisplayName,
\* 3 has an artistDisplayName that is present but empty.
primaryImage(object_id) == object_id # 4
hasArtistDisplayName(object_id) == object_id # 5
artistDisplayName(object_id) ==
    IF object_id = 3 THEN "" ELSE "Rembrandt van Rijn"

(* ------------------------------- helpers ------------------------------ *)

Range(s) == {s[i] : i \in 1..Len(s)}

Min(a, b) == IF a < b THEN a ELSE b

\* object_ids[:limit]
Take(s, n) == SubSeq(s, 1, Min(n, Len(s)))

Ids(posts) == [i \in 1..Len(posts) |-> posts[i].object_id]

NoDuplicates(s) == \A i, j \in 1..Len(s) : i # j => s[i] # s[j]

IsPrefix(s, t) == Len(s) <= Len(t) /\ s = SubSeq(t, 1, Len(s))

(* ------------------------------ MetMuseumAPI -------------------------- *)

\* search_artworks: the ids of the term, cut to the limit; [] on any error
search_artworks(query, lim, ok) ==
    IF ok THEN Take(objectIDs(query), lim) ELSE <<>>

get_artwork_details_noimage(object_id, ok) ==
    IF ~ok
    THEN NoPost
    ELSE [object_id |-> object_id,
          artist |-> IF hasArtistDisplayName(object_id)
                     THEN artistDisplayName(object_id)
                     ELSE "Unknown Artist",
          type |-> ""]

\* get_artwork_details: None (NoPost) on error or when there is no image
get_artwork_details(object_id, ok) ==
    IF ~ok \/ ~primaryImage(object_id)
    THEN NoPost
    ELSE [object_id |-> object_id,
          artist |-> IF hasArtistDisplayName(object_id)
                     THEN artistDisplayName(object_id)
                     ELSE "Unknown Artist",
          type |-> ""]

(* ------------------------------ PostTracker --------------------------- *)

\* str(object_id)
str(object_id) == ToString(object_id)

load_used_empty(file) == {}
\* _load_used: set(json.load(f))
load_used(file) == file

\* `object_id in self.used_artworks`: an int equals no string of the set
is_used_nostr(used, object_id) == FALSE
\* is_used: str(object_id) in self.used_artworks
is_used(used, object_id) == str(object_id) \in used

\* [p for p in queue if not tracker.is_used(p['artwork_details']['object_id'])]
FilterUsed(posts, used) ==
    LET keep(post) == ~is_used(used, post.object_id)
    IN  SelectSeq(posts, keep)

(* --------------------------- SimplePostGenerator ---------------------- *)

\* generate_post: the post embeds the artwork; the text is not modelled
generate_post(artwork) == [artwork EXCEPT !.type = "daily_artwork"]

(* ------------------------------- the state ---------------------------- *)

VARIABLES
    usedFile,        \* used_artworks.json: a set of strings
    logFile,         \* posted_log.json: a sequence of log entries
    queueFile,       \* generated_posts.json: a sequence of posts
    pc,              \* where each invocation is
    used_artworks,   \* tracker.used_artworks
    posting_log,     \* tracker.posting_log
    queue,           \* main's queue
    new_posts,       \* main's new_posts
    attempts,        \* main's attempts
    today_post,      \* main's today_post
    post_id,         \* main's post_id
    published,       \* the artwork ids the publisher accepted, in order
    kills,           \* invocations killed so far
    faults,          \* single search-source failures so far
    usedFile0,       \* usedFile when the invocation started
    logFile0,        \* logFile when the invocation started
    queueFile0,      \* queueFile when the invocation started
    retry,           \* the post whose publish failed in the previous invocation
    stale,           \* the id marked used by the previous invocation, killed before its pop
    commitWrites,    \* the files the invocation wrote after its publish
    calls,           \* the calls of poster.post_photo the invocation made
    last_search,     \* the last pass of the running loop: the search
                     \* answered, the requests it made, the ids whose fetch
                     \* raised
    no_results,      \* no search of the replenishment has returned an id
    outage,          \* the search endpoint is down while the loop runs
    fileState,       \* per file: "missing", "malformed" or "ok"
    marked,          \* the ids for which tracker.mark_used has returned
    database,        \* artist_scraper: self.database, its three term lists
    last_query       \* artist_scraper: the last call of query_wikidata

vars == <<usedFile, logFile, queueFile, pc, used_artworks, posting_log,
          queue, new_posts, attempts, today_post, post_id, published, kills,
          faults, usedFile0, logFile0, queueFile0, retry, stale,
          commitWrites, calls, last_search, no_results, outage, fileState,
          marked, database, last_query>>

NoSearch == [ok |-> TRUE, requests |-> 0, failed |-> {}]
\* used_artworks.json, posted_log.json, generated_posts.json
FileNames == {"used", "log", "queue"}
\* no call of query_wikidata yet
NoQuery == [max_retries |-> 0, requests |-> 0, sleeps |-> <<>>,
            result |-> "None", outcomes |-> <<>>]
history == <<calls, last_search, no_results, outage>>

files == <<usedFile, logFile, queueFile, fileState>>
scraper == <<database, last_query>>
locals == <<used_artworks, posting_log, queue, new_posts, attempts,
            today_post, post_id>>
snapshots == <<usedFile0, logFile0, queueFile0>>

Ended == {"idle", "done", "no_credentials", "no_posts", "publish_failed",
          "killed"}
Aborted == {"no_credentials", "no_posts", "publish_failed"}

\* No invocation has run yet and the scraper has not been used.
InitProcesses ==
    /\ pc = [p \in Procs |-> "idle"]
    /\ used_artworks = [p \in Procs |-> {}]
    /\ posting_log = [p \in Procs |-> <<>>]
    /\ queue = [p \in Procs |-> <<>>]
    /\ new_posts = [p \in Procs |-> <<>>]
    /\ attempts = [p \in Procs |-> 0]
    /\ today_post = [p \in Procs |-> NoPost]
    /\ post_id = [p \in Procs |-> 0]
    /\ published = <<>>
    /\ kills = 0
    /\ faults = 0
    /\ usedFile0 = [p \in Procs |-> {}]
    /\ logFile0 = [p \in Procs |-> <<>>]
    /\ queueFile0 = [p \in Procs |-> <<>>]
    /\ retry = [p \in Procs |-> NoPost]
    /\ stale = [p \in Procs |-> NoId]
    /\ commitWrites = [p \in Procs |-> <<>>]
    /\ calls = [p \in Procs |-> 0]
    /\ last_search = [p \in Procs |-> NoSearch]
    /\ no_results = [p \in Procs |-> TRUE]
    /\ outage = [p \in Procs |-> FALSE]
    /\ marked = {}
    /\ database = [search_queries |-> <<>>, movements |-> <<>>,
                   themes |-> <<>>]
    /\ last_query = NoQuery

\* The first run: none of the three files exists.
Init ==
    /\ usedFile = {}
    /\ logFile = <<>>
    /\ queueFile = <<>>
    /\ fileState = [f \in FileNames |-> "missing"]
    /\ InitProcesses

\* The candidate of the scenario: artwork 42.
StarryNight == generate_post(get_artwork_details(42, TRUE))

\* The scenario: the queue file holds one candidate, no used file and no
\* log file exist.
InitScenario ==
    /\ usedFile = {}
    /\ logFile = <<>>
    /\ queueFile = <<StarryNight>>
    /\ fileState = [f \in FileNames |->
                        IF f = "queue" THEN "ok" ELSE "missing"]
    /\ InitProcesses

(* ------------------------- reading and writing files ------------------ *)

\* `with open(file, 'w') as f: json.dump(...)` has returned: the file exists
\* and parses.
written(f) == [fileState EXCEPT ![f] = "ok"]

LoadedUsed_raw == load_used(usedFile)
\* _load_used: the set of the file; set() when the file is missing or
\* json.load raises
LoadedUsed ==
    IF fileState["used"] = "ok" THEN load_used(usedFile) ELSE {}

\* _load_log: the list of the file; [] when the file is missing or
\* json.load raises
LoadedLog ==
    IF fileState["log"] = "ok" THEN logFile ELSE <<>>

\* get_post_queue: the list of the file; [] when the file is missing or
\* json.load raises
get_post_queue ==
    IF fileState["queue"] = "ok" THEN queueFile ELSE <<>>

(* -------------------------------- main -------------------------------- *)

RECURSIVE scan_noskip(_, _, _, _)
scan_noskip(object_ids, posts, used, failed) ==
    IF object_ids = <<>> THEN posts
    ELSE LET obj_id == Head(object_ids)
             artwork == get_artwork_details(obj_id, obj_id \notin failed)
         IN  IF artwork = NoPost \/ artwork.artist = "Unknown Artist"
             THEN scan_noskip(Tail(object_ids), posts, used, failed)
             ELSE LET more == Append(posts, generate_post(artwork)) IN
                  IF Len(more) >= NEW_POSTS_TARGET
                  THEN more
                  ELSE scan_noskip(Tail(object_ids), more, used, failed)

\* The body of `for obj_id in object_ids`: the posts appended to new_posts.
\* `failed` are the ids whose fetch raises in this pass.
RECURSIVE scan(_, _, _, _)
scan(object_ids, posts, used, failed) ==
    IF object_ids = <<>> THEN posts
    ELSE LET obj_id == Head(object_ids) IN
         IF is_used(used, obj_id)
         THEN scan(Tail(object_ids), posts, used, failed)
         ELSE LET artwork == get_artwork_details(obj_id, obj_id \notin failed) IN
              IF artwork = NoPost \/ artwork.artist = "Unknown Artist"
              THEN scan(Tail(object_ids), posts, used, failed)
              ELSE LET more == Append(posts, generate_post(artwork)) IN
                   IF Len(more) >= NEW_POSTS_TARGET
                   THEN more
                   ELSE scan(Tail(object_ids), more, used, failed)

Start_savequeue(p) ==
    /\ pc[p] \in Ended
    /\ \E credentials \in BOOLEAN :
           pc' = [pc EXCEPT ![p] = IF credentials THEN "load_queue"
                                   ELSE "no_credentials"]
    /\ used_artworks' = [used_artworks EXCEPT ![p] = load_used(usedFile)]
    /\ posting_log' = [posting_log EXCEPT ![p] = logFile]
    /\ queue' = [queue EXCEPT ![p] = <<>>]
    /\ new_posts' = [new_posts EXCEPT ![p] = <<>>]
    /\ attempts' = [attempts EXCEPT ![p] = 0]
    /\ today_post' = [today_post EXCEPT ![p] = NoPost]
    /\ post_id' = [post_id EXCEPT ![p] = 0]
    /\ usedFile0' = [usedFile0 EXCEPT ![p] = usedFile]
    /\ logFile0' = [logFile0 EXCEPT ![p] = logFile]
    /\ queueFile0' = [queueFile0 EXCEPT ![p] = queueFile]
    /\ retry' = [retry EXCEPT ![p] = IF pc[p] = "publish_failed"
                                     THEN today_post[p] ELSE NoPost]
    /\ stale' = [stale EXCEPT ![p] = IF pc[p] = "killed"
                                     THEN stale[p] ELSE NoId]
    /\ commitWrites' = [commitWrites EXCEPT ![p] = <<>>]
    /\ calls' = [calls EXCEPT ![p] = 0]
    /\ last_search' = [last_search EXCEPT ![p] = NoSearch]
    /\ no_results' = [no_results EXCEPT ![p] = TRUE]
    /\ outage' = [outage EXCEPT ![p] = FALSE]
    /\ queueFile' = FilterUsed(queueFile, load_used(usedFile))
    /\ fileState' = written("queue")
    /\ UNCHANGED <<scraper, marked, usedFile, logFile, published, kills, faults>>

\* envmain(), PostTracker(), MetMuseumAPI(), SimplePostGenerator(),
\* FacebookPoster(): the tracker loads the used set and the log, the poster
\* raises when a credential is missing.
Start(p) ==
    /\ pc[p] \in Ended
    /\ \E credentials \in BOOLEAN :
           pc' = [pc EXCEPT ![p] = IF credentials THEN "load_queue"
                                   ELSE "no_credentials"]
    /\ used_artworks' = [used_artworks EXCEPT ![p] = LoadedUsed]
    /\ posting_log' = [posting_log EXCEPT ![p] = LoadedLog]
    /\ queue' = [queue EXCEPT ![p] = <<>>]
    /\ new_posts' = [new_posts EXCEPT ![p] = <<>>]
    /\ attempts' = [attempts EXCEPT ![p] = 0]
    /\ today_post' = [today_post EXCEPT ![p] = NoPost]
    /\ post_id' = [post_id EXCEPT ![p] = 0]
    /\ usedFile0' = [usedFile0 EXCEPT ![p] = usedFile]
    /\ logFile0' = [logFile0 EXCEPT ![p] = logFile]
    /\ queueFile0' = [queueFile0 EXCEPT ![p] = queueFile]
    /\ retry' = [retry EXCEPT ![p] = IF pc[p] = "publish_failed"
                                     THEN today_post[p] ELSE NoPost]
    /\ stale' = [stale EXCEPT ![p] = IF pc[p] = "killed"
                                     THEN stale[p] ELSE NoId]
    /\ commitWrites' = [commitWrites EXCEPT ![p] = <<>>]
    /\ calls' = [calls EXCEPT ![p] = 0]
    /\ last_search' = [last_search EXCEPT ![p] = NoSearch]
    /\ no_results' = [no_results EXCEPT ![p] = TRUE]
    /\ outage' = [outage EXCEPT ![p] = FALSE]
    /\ UNCHANGED <<scraper, marked, files, published, kills, faults>>

LoadQueue_nofilter(p) ==
    /\ pc[p] = "load_queue"
    /\ queue' = [queue EXCEPT ![p] = get_post_queue]
    /\ pc' = [pc EXCEPT ![p] = IF Len(queue'[p]) < LOW_QUEUE
                               THEN "replenishing" ELSE "selecting"]
    /\ \E down \in BOOLEAN :
           /\ down => pc'[p] = "replenishing"
           /\ outage' = [outage EXCEPT ![p] = down]
    /\ UNCHANGED <<scraper, marked, files, used_artworks, posting_log, new_posts, attempts,
                   today_post, post_id, published, kills, faults, snapshots,
                   retry, stale, commitWrites, calls, last_search,
                   no_results>>

LoadQueue_rawlen(p) ==
    /\ pc[p] = "load_queue"
    /\ queue' = [queue EXCEPT ![p] = FilterUsed(get_post_queue, used_artworks[p])]
    /\ pc' = [pc EXCEPT ![p] = IF Len(queueFile) < LOW_QUEUE
                               THEN "replenishing" ELSE "selecting"]
    /\ \E down \in BOOLEAN :
           /\ down => pc'[p] = "replenishing"
           /\ outage' = [outage EXCEPT ![p] = down]
    /\ UNCHANGED <<scraper, marked, files, used_artworks, posting_log, new_posts, attempts,
                   today_post, post_id, published, kills, faults, snapshots,
                   retry, stale, commitWrites, calls, last_search,
                   no_results>>

LoadQueue_always(p) ==
    /\ pc[p] = "load_queue"
    /\ queue' = [queue EXCEPT ![p] = FilterUsed(get_post_queue, used_artworks[p])]
    /\ pc' = [pc EXCEPT ![p] = "replenishing"]
    /\ \E down \in BOOLEAN : outage' = [outage EXCEPT ![p] = down]
    /\ UNCHANGED <<scraper, marked, files, used_artworks, posting_log,
                   new_posts, attempts, today_post, post_id, published,
                   kills, faults, snapshots, retry, stale, commitWrites,
                   calls, last_search, no_results>>

\* queue = tracker.get_post_queue(); the filter; `if len(queue) < 7`
LoadQueue(p) ==
    /\ pc[p] = "load_queue"
    /\ queue' = [queue EXCEPT ![p] = FilterUsed(get_post_queue, used_artworks[p])]
    /\ pc' = [pc EXCEPT ![p] = IF Len(queue'[p]) < LOW_QUEUE
                               THEN "replenishing" ELSE "selecting"]
    /\ \E down \in BOOLEAN :
           /\ down => pc'[p] = "replenishing"
           /\ outage' = [outage EXCEPT ![p] = down]
    /\ UNCHANGED <<scraper, marked, files, used_artworks, posting_log, new_posts, attempts,
                   today_post, post_id, published, kills, faults, snapshots,
                   retry, stale, commitWrites, calls, last_search,
                   no_results>>

loop_continues_le(n_new, n_attempts) ==
    n_new < NEW_POSTS_TARGET /\ n_attempts <= max_attempts
\* `while len(new_posts) < 14 and attempts < max_attempts`
loop_continues(n_new, n_attempts) ==
    n_new < NEW_POSTS_TARGET /\ n_attempts < max_attempts

\* The requests.get calls one search_artworks call makes.
search_requests(ok) == 1

SearchAttempt_countEmpty(p) ==
    /\ pc[p] = "replenishing"
    /\ loop_continues(Len(new_posts[p]), attempts[p])
    /\ \E query \in search_queries, ok \in BOOLEAN :
         LET object_ids == search_artworks(query, limit, ok)
             fetched == {id \in Range(object_ids) :
                            ~is_used(used_artworks[p], id)}
         IN  \E failed \in SUBSET fetched :
                LET n == Cardinality(failed) +
                         (IF ok \/ outage[p] THEN 0 ELSE 1) IN
                /\ outage[p] => ~ok
                /\ faults + n <= MaxFaults
                /\ faults' = faults + n
                /\ new_posts' = [new_posts EXCEPT ![p] =
                       scan(object_ids, new_posts[p], used_artworks[p], failed)]
                /\ last_search' = [last_search EXCEPT ![p] =
                       [ok |-> ok, requests |-> search_requests(ok),
                        failed |-> failed]]
                /\ no_results' = [no_results EXCEPT ![p] =
                       @ /\ object_ids = <<>>]
    /\ attempts' = [attempts EXCEPT ![p] =
           IF new_posts'[p] = new_posts[p] THEN attempts[p] + 1
           ELSE attempts[p]]
    /\ UNCHANGED <<scraper, marked, files, pc, used_artworks, posting_log, queue, today_post,
                   post_id, published, kills, snapshots, retry, stale,
                   commitWrites, calls, outage>>

SearchAttempt_raise(p) ==
    /\ pc[p] = "replenishing"
    /\ loop_continues(Len(new_posts[p]), attempts[p])
    /\ \E query \in search_queries, ok \in BOOLEAN :
         LET object_ids == search_artworks(query, limit, ok)
             fetched == {id \in Range(object_ids) :
                            ~is_used(used_artworks[p], id)}
         IN  \E failed \in SUBSET fetched :
                LET n == Cardinality(failed) +
                         (IF ok \/ outage[p] THEN 0 ELSE 1) IN
                /\ outage[p] => ~ok
                /\ faults + n <= MaxFaults
                /\ faults' = faults + n
                /\ new_posts' = [new_posts EXCEPT ![p] =
                       scan(object_ids, new_posts[p], used_artworks[p], failed)]
                /\ last_search' = [last_search EXCEPT ![p] =
                       [ok |-> ok, requests |-> search_requests(ok),
                        failed |-> failed]]
                /\ no_results' = [no_results EXCEPT ![p] =
                       @ /\ object_ids = <<>>]
    /\ attempts' = [attempts EXCEPT ![p] = attempts[p] + 1]
    /\ pc' = [pc EXCEPT ![p] = IF last_search'[p].ok THEN "replenishing"
                               ELSE "publish_failed"]
    /\ UNCHANGED <<scraper, marked, files, used_artworks, posting_log, queue, today_post,
                   post_id, published, kills, snapshots, retry, stale,
                   commitWrites, calls, outage>>

\* One pass of the loop: random.choice, search_artworks, the scan of its
\* ids, `attempts += 1`.  The search fails in every pass of an outage;
\* `failed` are the ids whose get_artwork_details raises in this pass.
SearchAttempt(p) ==
    /\ pc[p] = "replenishing"
    /\ loop_continues(Len(new_posts[p]), attempts[p])
    /\ \E query \in search_queries, ok \in BOOLEAN :
         LET object_ids == search_artworks(query, limit, ok)
             fetched == {id \in Range(object_ids) :
                            ~is_used(used_artworks[p], id)}
         IN  \E failed \in SUBSET fetched :
                LET n == Cardinality(failed) +
                         (IF ok \/ outage[p] THEN 0 ELSE 1) IN
                /\ outage[p] => ~ok
                /\ faults + n <= MaxFaults
                /\ faults' = faults + n
                /\ new_posts' = [new_posts EXCEPT ![p] =
                       scan(object_ids, new_posts[p], used_artworks[p], failed)]
                /\ last_search' = [last_search EXCEPT ![p] =
                       [ok |-> ok, requests |-> search_requests(ok),
                        failed |-> failed]]
                /\ no_results' = [no_results EXCEPT ![p] =
                       @ /\ object_ids = <<>>]
    /\ attempts' = [attempts EXCEPT ![p] = attempts[p] + 1]
    /\ UNCHANGED <<scraper, marked, files, pc, used_artworks, posting_log, queue, today_post,
                   post_id, published, kills, snapshots, retry, stale,
                   commitWrites, calls, outage>>

SaveExtended_prepend(p) ==
    /\ pc[p] = "replenishing"
    /\ ~loop_continues(Len(new_posts[p]), attempts[p])
    /\ queue' = [queue EXCEPT ![p] = new_posts[p] \o queue[p]]
    /\ queueFile' = queue'[p]
    /\ pc' = [pc EXCEPT ![p] = "selecting"]
    /\ last_search' = [last_search EXCEPT ![p] = NoSearch]
    /\ outage' = [outage EXCEPT ![p] = FALSE]
    /\ fileState' = written("queue")
    /\ UNCHANGED <<scraper, marked, usedFile, logFile, used_artworks, posting_log, new_posts,
                   attempts, today_post, post_id, published, kills, faults,
                   snapshots, retry, stale, commitWrites, calls,
                   no_results>>

SaveExtended_reload(p) ==
    /\ pc[p] = "replenishing"
    /\ ~loop_continues(Len(new_posts[p]), attempts[p])
    /\ queue' = [queue EXCEPT ![p] =
                     FilterUsed(get_post_queue, LoadedUsed) \o new_posts[p]]
    /\ queueFile' = queue'[p]
    /\ pc' = [pc EXCEPT ![p] = "selecting"]
    /\ last_search' = [last_search EXCEPT ![p] = NoSearch]
    /\ outage' = [outage EXCEPT ![p] = FALSE]
    /\ fileState' = written("queue")
    /\ UNCHANGED <<scraper, marked, usedFile, logFile, used_artworks,
                   posting_log, new_posts, attempts, today_post, post_id,
                   published, kills, faults, snapshots, retry, stale,
                   commitWrites, calls, no_results>>

\* queue.extend(new_posts); tracker.save_post_queue(queue)
SaveExtended(p) ==
    /\ pc[p] = "replenishing"
    /\ ~loop_continues(Len(new_posts[p]), attempts[p])
    /\ queue' = [queue EXCEPT ![p] = queue[p] \o new_posts[p]]
    /\ queueFile' = queue'[p]
    /\ pc' = [pc EXCEPT ![p] = "selecting"]
    /\ last_search' = [last_search EXCEPT ![p] = NoSearch]
    /\ outage' = [outage EXCEPT ![p] = FALSE]
    /\ fileState' = written("queue")
    /\ UNCHANGED <<scraper, marked, usedFile, logFile, used_artworks, posting_log, new_posts,
                   attempts, today_post, post_id, published, kills, faults,
                   snapshots, retry, stale, commitWrites, calls,
                   no_results>>

Select_return(p) ==
    /\ pc[p] = "selecting"
    /\ IF queue[p] = <<>>
       THEN /\ pc' = [pc EXCEPT ![p] = "done"]
            /\ UNCHANGED today_post
       ELSE /\ pc' = [pc EXCEPT ![p] = "publishing"]
            /\ today_post' = [today_post EXCEPT ![p] = queue[p][1]]
    /\ no_results' = [no_results EXCEPT ![p] = TRUE]
    /\ UNCHANGED <<scraper, marked, files, used_artworks, posting_log, queue, new_posts,
                   attempts, post_id, published, kills, faults, snapshots,
                   retry, stale, commitWrites, calls, last_search,
                   outage>>

\* `if not queue: sys.exit(1)`; today_post = queue[0]
Select(p) ==
    /\ pc[p] = "selecting"
    /\ IF queue[p] = <<>>
       THEN /\ pc' = [pc EXCEPT ![p] = "no_posts"]
            /\ UNCHANGED today_post
       ELSE /\ pc' = [pc EXCEPT ![p] = "publishing"]
            /\ today_post' = [today_post EXCEPT ![p] = queue[p][1]]
    /\ no_results' = [no_results EXCEPT ![p] = TRUE]
    /\ UNCHANGED <<scraper, marked, files, used_artworks, posting_log, queue, new_posts,
                   attempts, post_id, published, kills, faults, snapshots,
                   retry, stale, commitWrites, calls, last_search,
                   outage>>

\* The identifier the publisher answers with: 999 for the first photo.
FreshPostId == 999 + Len(published)

\* poster.post_photo returns; post_id = response.get('id', 'unknown')
Publish(p) ==
    /\ pc[p] = "publishing"
    /\ calls' = [calls EXCEPT ![p] = calls[p] + 1]
    /\ published' = Append(published, today_post[p].object_id)
    /\ post_id' = [post_id EXCEPT ![p] = FreshPostId]
    /\ pc' = [pc EXCEPT ![p] = "mark_used"]
    /\ UNCHANGED <<scraper, marked, files, used_artworks, posting_log, queue, new_posts,
                   attempts, today_post, kills, faults, snapshots, retry,
                   stale, commitWrites, last_search,
                   no_results, outage>>

PublishFail_pop(p) ==
    /\ pc[p] = "publishing"
    /\ calls' = [calls EXCEPT ![p] = calls[p] + 1]
    /\ queue' = [queue EXCEPT ![p] = Tail(queue[p])]
    /\ queueFile' = queue'[p]
    /\ pc' = [pc EXCEPT ![p] = "publish_failed"]
    /\ fileState' = written("queue")
    /\ UNCHANGED <<scraper, marked, usedFile, logFile, used_artworks, posting_log, new_posts,
                   attempts, today_post, post_id, published, kills, faults,
                   snapshots, retry, stale, commitWrites, last_search,
                   no_results, outage>>

PublishFail_mark(p) ==
    /\ pc[p] = "publishing"
    /\ calls' = [calls EXCEPT ![p] = calls[p] + 1]
    /\ used_artworks' = [used_artworks EXCEPT ![p] =
                            @ \cup {str(today_post[p].object_id)}]
    /\ usedFile' = used_artworks'[p]
    /\ pc' = [pc EXCEPT ![p] = "publish_failed"]
    /\ fileState' = written("used")
    /\ marked' = marked \cup {today_post[p].object_id}
    /\ UNCHANGED <<scraper, logFile, queueFile, posting_log, queue, new_posts,
                   attempts, today_post, post_id, published, kills, faults,
                   snapshots, retry, stale, commitWrites, last_search,
                   no_results, outage>>

PublishFail_retry(p) ==
    /\ pc[p] = "publishing"
    /\ calls' = [calls EXCEPT ![p] = calls[p] + 1]
    /\ pc' = [pc EXCEPT ![p] = IF calls[p] < 2 THEN "publishing"
                               ELSE "publish_failed"]
    /\ UNCHANGED <<scraper, marked, files, locals, published, kills, faults, snapshots, retry,
                   stale, commitWrites, last_search,
                   no_results, outage>>

\* poster.post_photo raises; `except Exception: sys.exit(1)`
PublishFail(p) ==
    /\ pc[p] = "publishing"
    /\ calls' = [calls EXCEPT ![p] = calls[p] + 1]
    /\ pc' = [pc EXCEPT ![p] = "publish_failed"]
    /\ UNCHANGED <<scraper, marked, files, locals, published, kills, faults, snapshots, retry,
                   stale, commitWrites, last_search,
                   no_results, outage>>

MarkUsed_nosave(p) ==
    /\ pc[p] = "mark_used"
    /\ used_artworks' = [used_artworks EXCEPT ![p] =
                            @ \cup {str(today_post[p].object_id)}]
    /\ pc' = [pc EXCEPT ![p] = "log_post"]
    /\ marked' = marked \cup {today_post[p].object_id}
    /\ UNCHANGED <<scraper, files, posting_log, queue, new_posts, attempts,
                   today_post, post_id, published, kills, faults, snapshots,
                   retry, stale, commitWrites, history>>

\* tracker.mark_used(artwork['object_id'])
MarkUsed(p) ==
    /\ pc[p] = "mark_used"
    /\ used_artworks' = [used_artworks EXCEPT ![p] =
                            @ \cup {str(today_post[p].object_id)}]
    /\ usedFile' = used_artworks'[p]
    /\ commitWrites' = [commitWrites EXCEPT ![p] = Append(@, "used")]
    /\ pc' = [pc EXCEPT ![p] = "log_post"]
    /\ fileState' = written("used")
    /\ marked' = marked \cup {today_post[p].object_id}
    /\ UNCHANGED <<scraper, logFile, queueFile, posting_log, queue, new_posts,
                   attempts, today_post, post_id, published, kills, faults,
                   snapshots, retry, stale, history>>

\* tracker.log_post({...})
LogPost(p) ==
    /\ pc[p] = "log_post"
    /\ posting_log' = [posting_log EXCEPT ![p] =
                          Append(@, [post_id |-> post_id[p],
                                     object_id |-> today_post[p].object_id,
                                     artist |-> today_post[p].artist])]
    /\ logFile' = posting_log'[p]
    /\ commitWrites' = [commitWrites EXCEPT ![p] = Append(@, "log")]
    /\ pc' = [pc EXCEPT ![p] = "pop"]
    /\ fileState' = written("log")
    /\ UNCHANGED <<scraper, marked, usedFile, queueFile, used_artworks, queue, new_posts,
                   attempts, today_post, post_id, published, kills, faults,
                   snapshots, retry, stale, history>>

\* queue.pop(0); tracker.save_post_queue(queue)
PopAndSave_clear(p) ==
    /\ pc[p] = "pop"
    /\ queue' = [queue EXCEPT ![p] = <<>>]
    /\ queueFile' = queue'[p]
    /\ commitWrites' = [commitWrites EXCEPT ![p] = Append(@, "queue")]
    /\ pc' = [pc EXCEPT ![p] = "done"]
    /\ fileState' = written("queue")
    /\ UNCHANGED <<scraper, marked, usedFile, logFile, used_artworks,
                   posting_log, new_posts, attempts, today_post, post_id,
                   published, kills, faults, snapshots, retry, stale,
                   history>>

\* queue.pop(0); tracker.save_post_queue(queue)
PopAndSave(p) ==
    /\ pc[p] = "pop"
    /\ queue' = [queue EXCEPT ![p] = Tail(queue[p])]
    /\ queueFile' = queue'[p]
    /\ commitWrites' = [commitWrites EXCEPT ![p] = Append(@, "queue")]
    /\ pc' = [pc EXCEPT ![p] = "done"]
    /\ fileState' = written("queue")
    /\ UNCHANGED <<scraper, marked, usedFile, logFile, used_artworks, posting_log, new_posts,
                   attempts, today_post, post_id, published, kills, faults,
                   snapshots, retry, stale, history>>

\* The process is killed between two steps: its memory is gone, the files
\* stay as they are.
Kill(p) ==
    /\ pc[p] \notin Ended
    /\ kills < MaxKills
    /\ kills' = kills + 1
    /\ pc' = [pc EXCEPT ![p] = "killed"]
    /\ used_artworks' = [used_artworks EXCEPT ![p] = {}]
    /\ posting_log' = [posting_log EXCEPT ![p] = <<>>]
    /\ queue' = [queue EXCEPT ![p] = <<>>]
    /\ new_posts' = [new_posts EXCEPT ![p] = <<>>]
    /\ attempts' = [attempts EXCEPT ![p] = 0]
    /\ today_post' = [today_post EXCEPT ![p] = NoPost]
    /\ post_id' = [post_id EXCEPT ![p] = 0]
    /\ stale' = [stale EXCEPT ![p] =
                    IF commitWrites[p] \in {<<"used">>, <<"used", "log">>}
                    THEN today_post[p].object_id ELSE NoId]
    /\ retry' = [retry EXCEPT ![p] = NoPost]
    /\ commitWrites' = [commitWrites EXCEPT ![p] = <<>>]
    /\ calls' = [calls EXCEPT ![p] = 0]
    /\ last_search' = [last_search EXCEPT ![p] = NoSearch]
    /\ no_results' = [no_results EXCEPT ![p] = TRUE]
    /\ outage' = [outage EXCEPT ![p] = FALSE]
    /\ UNCHANGED <<scraper, marked, files, published, faults, snapshots>>

\* The file the next step of the invocation writes, "none" when it writes
\* no file.
writing(p) ==
    IF pc[p] = "mark_used" THEN "used"
    ELSE IF pc[p] = "log_post" THEN "log"
    ELSE IF pc[p] = "pop" THEN "queue"
    ELSE IF /\ pc[p] = "replenishing"
            /\ ~loop_continues(Len(new_posts[p]), attempts[p]) THEN "queue"
    ELSE "none"

\* The process is killed inside _save_used, _save_log or save_post_queue,
\* after open(file, 'w') has truncated the file and before json.dump has
\* written it out: the file no longer parses.
KillInWrite(p) ==
    /\ writing(p) # "none"
    /\ kills < MaxKills
    /\ kills' = kills + 1
    /\ fileState' = [fileState EXCEPT ![writing(p)] = "malformed"]
    /\ pc' = [pc EXCEPT ![p] = "killed"]
    /\ used_artworks' = [used_artworks EXCEPT ![p] = {}]
    /\ posting_log' = [posting_log EXCEPT ![p] = <<>>]
    /\ queue' = [queue EXCEPT ![p] = <<>>]
    /\ new_posts' = [new_posts EXCEPT ![p] = <<>>]
    /\ attempts' = [attempts EXCEPT ![p] = 0]
    /\ today_post' = [today_post EXCEPT ![p] = NoPost]
    /\ post_id' = [post_id EXCEPT ![p] = 0]
    /\ stale' = [stale EXCEPT ![p] = NoId]
    /\ usedFile0' = [usedFile0 EXCEPT ![p] = {}]
    /\ logFile0' = [logFile0 EXCEPT ![p] = <<>>]
    /\ queueFile0' = [queueFile0 EXCEPT ![p] = <<>>]
    /\ retry' = [retry EXCEPT ![p] = NoPost]
    /\ commitWrites' = [commitWrites EXCEPT ![p] = <<>>]
    /\ calls' = [calls EXCEPT ![p] = 0]
    /\ last_search' = [last_search EXCEPT ![p] = NoSearch]
    /\ no_results' = [no_results EXCEPT ![p] = TRUE]
    /\ outage' = [outage EXCEPT ![p] = FALSE]
    /\ UNCHANGED <<scraper, marked, usedFile, logFile, queueFile, published,
                   faults>>

\* One invocation at a time, each running to completion.
Next ==
    \/ Start(1)
    \/ LoadQueue(1)
    \/ SearchAttempt(1)
    \/ SaveExtended(1)
    \/ Select(1)
    \/ Publish(1)
    \/ PublishFail(1)
    \/ MarkUsed(1)
    \/ LogPost(1)
    \/ PopAndSave(1)

Spec == Init /\ [][Next]_vars

\* One invocation at a time, each of which may be killed at any step.
NextKill == Next \/ Kill(1)

SpecKill == Init /\ [][NextKill]_vars

\* The steps of a started invocation.  The interpreter runs main() to its
\* end: a started invocation that can take a step takes one.
Run(p) ==
    \/ LoadQueue(p)
    \/ SearchAttempt(p)
    \/ SaveExtended(p)
    \/ Select(p)
    \/ Publish(p)
    \/ PublishFail(p)
    \/ MarkUsed(p)
    \/ LogPost(p)
    \/ PopAndSave(p)

SpecFair == Spec /\ WF_vars(Run(1))

\* Process p runs its one invocation.
Invoke(p) == pc[p] = "idle" /\ Start(p)

\* Two invocations with no lock between them: their steps interleave.
NextOverlap ==
    \E p \in Procs :
        \/ Invoke(p)
        \/ LoadQueue(p)
        \/ SearchAttempt(p)
        \/ SaveExtended(p)
        \/ Select(p)
        \/ Publish(p)
        \/ PublishFail(p)
        \/ MarkUsed(p)
        \/ LogPost(p)
        \/ PopAndSave(p)

SpecOverlap == Init /\ [][NextOverlap]_vars

\* One invocation at a time, the first of which finds the scenario's files.
SpecScenario == InitScenario /\ [][Next]_vars

\* A pass of the loop in which no single search or fetch fails: the search
\* source answers, or it is down for the whole replenishment.
SearchAttemptNoFault(p) == SearchAttempt(p) /\ faults' = faults

\* One invocation at a time, each of which may be killed inside a write.
NextTorn ==
    \/ Start(1)
    \/ LoadQueue(1)
    \/ SearchAttemptNoFault(1)
    \/ SaveExtended(1)
    \/ Select(1)
    \/ Publish(1)
    \/ PublishFail(1)
    \/ MarkUsed(1)
    \/ LogPost(1)
    \/ PopAndSave(1)
    \/ KillInWrite(1)

SpecTorn == Init /\ [][NextTorn]_vars

(* ---------------------------- artist_scraper -------------------------- *)

\* Everything of generate_and_post.py, which the scraper does not touch.
poster == <<files, pc, locals, published, kills, faults, snapshots, retry,
            stale, commitWrites, history, marked>>

\* The names a query answers with; "" is an empty label.
Labels == {"", "Rubens", "Vermeer"}

\* The lists of at most n labels.
RECURSIVE ItemLists(_)
ItemLists(n) ==
    IF n = 0 THEN {<<>>}
    ELSE LET shorter == ItemLists(n - 1) IN
         shorter \cup {Append(items, item) : items \in shorter, item \in Labels}

RECURSIVE query_attempts_sleeplast(_, _, _, _)
query_attempts_sleeplast(outcomes, n, attempt, call) ==
    IF attempt >= n THEN [call EXCEPT !.result = "None"]
    ELSE LET made == [call EXCEPT !.requests = @ + 1] IN
         IF outcomes[attempt + 1]
         THEN [made EXCEPT !.result = "bindings"]
         ELSE query_attempts_sleeplast(outcomes, n, attempt + 1,
                  [made EXCEPT !.sleeps = Append(@, 2 ^ attempt)])

\* `for attempt in range(max_retries)` from `attempt` on: the request, the
\* return of its bindings, or the except branch with its sleep or its
\* `return None`.  outcomes[attempt + 1] says whether the request of this
\* attempt succeeds.
RECURSIVE query_attempts(_, _, _, _)
query_attempts(outcomes, n, attempt, call) ==
    IF attempt >= n THEN [call EXCEPT !.result = "None"]
    ELSE LET made == [call EXCEPT !.requests = @ + 1] IN
         IF outcomes[attempt + 1]
         THEN [made EXCEPT !.result = "bindings"]
         ELSE IF attempt < n - 1
              THEN query_attempts(outcomes, n, attempt + 1,
                       [made EXCEPT !.sleeps = Append(@, 2 ^ attempt)])
              ELSE [made EXCEPT !.result = "None"]

\* query_wikidata(sparql_query, max_retries = n)
query_wikidata(outcomes, n) ==
    query_attempts(outcomes, n, 0,
                   [max_retries |-> n, requests |-> 0, sleeps |-> <<>>,
                    result |-> "None", outcomes |-> outcomes])

\* A call of query_wikidata.
QueryWikidata ==
    /\ \E n \in 0..MaxRetries, outcomes \in [1..MaxRetries -> BOOLEAN] :
           last_query' = query_wikidata(outcomes, n)
    /\ UNCHANGED <<poster, database>>

\* current = set(list); new_items = [item for item in items if item and
\* item not in current]; list.extend(new_items)
add_new_items(list, items) ==
    LET current == Range(list)
        new(item) == item # "" /\ item \notin current
    IN  list \o SelectSeq(items, new)

\* The terms the three lists hold together.
total_terms ==
    Len(database.search_queries) + Len(database.movements)
        + Len(database.themes)

\* _add_to_queries(items)
AddToQueries ==
    /\ \E items \in ItemLists(MaxItems) :
           /\ total_terms + Len(items) <= MaxTerms
           /\ database' = [database EXCEPT !.search_queries =
                               add_new_items(@, items)]
    /\ UNCHANGED <<poster, last_query>>

\* _add_to_movements(items)
AddToMovements ==
    /\ \E items \in ItemLists(MaxItems) :
           /\ total_terms + Len(items) <= MaxTerms
           /\ database' = [database EXCEPT !.movements =
                               add_new_items(@, items)]
    /\ UNCHANGED <<poster, last_query>>

\* _add_to_themes(items)
AddToThemes ==
    /\ \E items \in ItemLists(MaxItems) :
           /\ total_terms + Len(items) <= MaxTerms
           /\ database' = [database EXCEPT !.themes =
                               add_new_items(@, items)]
    /\ UNCHANGED <<poster, last_query>>

\* The scraper's operations in any order.
NextScraper ==
    \/ QueryWikidata
    \/ AddToQueries
    \/ AddToMovements
    \/ AddToThemes

SpecScraper == Init /\ [][NextScraper]_vars

(* ------------------------------ properties ---------------------------- *)

AfterSelect == {"publishing", "mark_used", "log_post", "pop", "done",
                "publish_failed"}
BeforePublish == {"load_queue", "replenishing", "selecting", "publishing"}
CommitOrder == <<"used", "log", "queue">>

\* C1: when every invocation runs to completion, the publisher never accepts
\* the same artwork id twice; the id of a completed run is in the used file,
\* and the post chosen for publishing was never published before.
C1_NoDuplicatePublication ==
    /\ NoDuplicates(published)
    /\ \A p \in Procs :
         /\ pc[p] = "done" => str(today_post[p].object_id) \in usedFile
         /\ pc[p] = "publishing" =>
                today_post[p].object_id \notin Range(published)

\* A post is chosen while the queue file still holds a published id.
C1_Witness ==
    /\ pc[1] = "publishing"
    /\ published # <<>>
    /\ \E i \in 1..Len(queueFile) :
           queueFile[i].object_id \in Range(published)

\* C2: after an invocation was killed between its mark_used and its pop, the
\* next invocation's queue does not hold the id it marked and does not hand
\* it to the publisher.
C2_StaleHeadFiltered ==
    \A p \in Procs :
        stale[p] # NoId =>
            /\ \A i \in 1..Len(queue[p]) : queue[p][i].object_id # stale[p]
            /\ today_post[p].object_id # stale[p]

\* The next invocation has published while the stale head is still the
\* first post of the queue file.
C2_Witness ==
    /\ stale[1] # NoId
    /\ pc[1] = "mark_used"
    /\ queueFile # <<>>
    /\ queueFile[1].object_id = stale[1]

\* C3: with kills between any two steps, no artwork id is accepted by the
\* publisher twice.
C3_AtMostOnceUnderKill ==
    \A i, j \in 1..Len(published) : i < j => published[i] # published[j]

\* C4 as stated: after a failed publish the queue file is what it was when
\* the invocation started.
C4_QueueFileSameAfterFailure ==
    \A p \in Procs :
        pc[p] = "publish_failed" => queueFile = queueFile0[p]

\* C4 amended: after a failed publish the queue file is what it was when the
\* invocation started if replenishment did not run, and otherwise it is the
\* starting queue without its used entries followed by the new posts.
C4_QueueFileAfterFailure ==
    \A p \in Procs :
        pc[p] = "publish_failed" =>
            LET kept == FilterUsed(queueFile0[p], usedFile0[p]) IN
            IF Len(kept) >= LOW_QUEUE
            THEN queueFile = queueFile0[p]
            ELSE queueFile = kept \o new_posts[p]

\* A publish failed in an invocation that replenished a non-empty queue.
C4_Witness ==
    /\ pc[1] = "publish_failed"
    /\ queueFile0[1] # <<>>
    /\ new_posts[1] # <<>>
    /\ queueFile # queueFile0[1]

\* C5: a failed publish leaves its post at the head of the queue, and the
\* next invocation chooses the same post.
C5_RetrySameHead ==
    \A p \in Procs :
        /\ pc[p] = "publish_failed" =>
              /\ queue[p] # <<>>
              /\ Head(queue[p]) = today_post[p]
              /\ Head(FilterUsed(queueFile, usedFile)) = today_post[p]
        /\ retry[p] # NoPost =>
              /\ pc[p] # "no_posts"
              /\ pc[p] \in AfterSelect => today_post[p] = retry[p]

\* The invocation after a failed publish has chosen its post.
C5_Witness ==
    /\ retry[1] # NoPost
    /\ pc[1] = "publishing"
    /\ usedFile # {}

\* C6: before the publisher has answered, and in every invocation that ends
\* without a publish, the used file and the log file are what they were when
\* the invocation started.
C6_AbortWritesNothing ==
    \A p \in Procs :
        pc[p] \in Aborted \cup BeforePublish =>
            /\ usedFile = usedFile0[p]
            /\ logFile = logFile0[p]

\* A publish failed after earlier invocations had published.
C6_Witness ==
    /\ pc[1] = "publish_failed"
    /\ usedFile # {}
    /\ logFile # <<>>

\* C7: when the head is about to be chosen, no post of the queue has its id
\* in the used file.
C7_SelectingQueueUnused ==
    \A p \in Procs :
        pc[p] = "selecting" =>
            \A i \in 1..Len(queue[p]) :
                str(queue[p][i].object_id) \notin usedFile

\* The queue file held a used id when the invocation started, and the queue
\* is not empty when the head is about to be chosen.
C7_Witness ==
    /\ pc[1] = "selecting"
    /\ queue[1] # <<>>
    /\ \E i \in 1..Len(queueFile0[1]) :
           str(queueFile0[1][i].object_id) \in usedFile

\* C8: when no invocation is running, no id is twice in the queue file and
\* no id of the queue file is in the used file.
C8_NoIdTwice ==
    (\A p \in Procs : pc[p] \in Ended) =>
        /\ NoDuplicates(Ids(queueFile))
        /\ \A i \in 1..Len(queueFile) :
               str(queueFile[i].object_id) \notin usedFile

C10_CommitOrder ==
    \A p \in Procs :
        /\ IsPrefix(commitWrites[p], CommitOrder)
        /\ pc[p] = "done" => commitWrites[p] = CommitOrder
        /\ pc[p] = "pop" => commitWrites[p] = <<"used", "log">>
        /\ pc[p] = "log_post" => commitWrites[p] = <<"used">>
        /\ "queue" \in Range(commitWrites[p]) =>
               str(today_post[p].object_id) \in usedFile

\* An invocation has made its three writes.
C10_Witness ==
    /\ pc[1] = "done"
    /\ commitWrites[1] = CommitOrder
    /\ Len(logFile) >= 2

\* The queue the invocation found, without its used entries.
Kept(p) == FilterUsed(queueFile0[p], usedFile0[p])

\* C11: the post chosen is the first entry of the filtered queue, the new
\* posts come after the entries that were there, in their order, and a
\* completed run leaves the rest of the queue in its order.
C11_StrictFIFO ==
    \A p \in Procs :
        /\ pc[p] \in {"selecting"} \cup (AfterSelect \ {"done"}) =>
               queue[p] = Kept(p) \o new_posts[p]
        /\ pc[p] \in AfterSelect =>
               today_post[p] = Head(Kept(p) \o new_posts[p])
        /\ pc[p] = "done" =>
               /\ queue[p] = Tail(Kept(p) \o new_posts[p])
               /\ queueFile = queue[p]

\* A post that was in the queue is chosen after new posts were appended.
C11_Witness ==
    /\ pc[1] = "publishing"
    /\ Kept(1) # <<>>
    /\ new_posts[1] # <<>>
    /\ today_post[1] = Head(Kept(1))

\* C12: the loop makes at most max_attempts passes and at most
\* NEW_POSTS_TARGET posts, every pass adds exactly one to attempts whatever
\* it yields, the loop is left for Selecting and never for an error, and a
\* started replenishment reaches Selecting.
C12_ReplenishmentTerminates ==
    /\ [](\A p \in Procs : /\ attempts[p] <= max_attempts
                           /\ Len(new_posts[p]) <= NEW_POSTS_TARGET)
    /\ [][\A p \in Procs :
            pc[p] = "replenishing" =>
                /\ pc'[p] \in {"replenishing", "selecting"}
                /\ pc'[p] = "replenishing" /\ new_posts'[p] # new_posts[p] =>
                       attempts'[p] = attempts[p] + 1
                /\ pc'[p] = "replenishing" /\ last_search'[p] # last_search[p] =>
                       attempts'[p] = attempts[p] + 1]_vars
    /\ (pc[1] = "replenishing") ~> (pc[1] = "selecting")

\* The loop ended on its attempts with some posts, fewer than its target.
C12_Witness ==
    /\ pc[1] = "selecting"
    /\ attempts[1] = max_attempts
    /\ new_posts[1] # <<>>
    /\ Len(new_posts[1]) < NEW_POSTS_TARGET

\* C13: when no search of the replenishment returned an id, the loop ends
\* after exactly max_attempts passes with no new post, and the queue and the
\* queue file are as long as the filtered queue was.
C13_AllSearchesFail ==
    \A p \in Procs :
        pc[p] = "selecting" /\ attempts[p] > 0 /\ no_results[p] =>
            /\ attempts[p] = max_attempts
            /\ new_posts[p] = <<>>
            /\ Len(queue[p]) = Len(Kept(p))
            /\ Len(queueFile) = Len(Kept(p))

\* Every search failed while the queue held a post.
C13_Witness ==
    /\ pc[1] = "selecting"
    /\ attempts[1] > 0
    /\ no_results[1]
    /\ queue[1] # <<>>

\* C14: the loop runs exactly when the filtered queue is shorter than
\* LOW_QUEUE, and once it has run the queue file holds the extended queue
\* before the publisher is called.
C14_ReplenishIffFilteredLow ==
    \A p \in Procs :
        /\ pc[p] = "replenishing" => Len(Kept(p)) < LOW_QUEUE
        /\ pc[p] = "selecting" =>
               (attempts[p] > 0 <=> Len(Kept(p)) < LOW_QUEUE)
        /\ pc[p] \in {"selecting", "publishing"} /\ attempts[p] > 0 =>
               queueFile = Kept(p) \o new_posts[p]

\* The loop runs on a queue file that is not short before the filter.
C14_Witness ==
    /\ pc[1] = "replenishing"
    /\ Len(queueFile0[1]) >= LOW_QUEUE
    /\ attempts[1] > 0

\* C15: every new post has an unused id, an image and an artist that is not
\* 'Unknown Artist', and was fetched without a failure; so has every post of
\* the queue file an image and such an artist.
C15_OnlyUsableCandidates ==
    /\ [](/\ \A p \in Procs : \A i \in 1..Len(new_posts[p]) :
                /\ primaryImage(new_posts[p][i].object_id)
                /\ hasArtistDisplayName(new_posts[p][i].object_id)
                /\ new_posts[p][i].artist # "Unknown Artist"
                /\ str(new_posts[p][i].object_id) \notin usedFile0[p]
          /\ \A i \in 1..Len(queueFile) :
                /\ primaryImage(queueFile[i].object_id)
                /\ queueFile[i].artist # "Unknown Artist")
    /\ [][\A p \in Procs :
            pc[p] = "replenishing" /\ pc'[p] = "replenishing" =>
                \A i \in (Len(new_posts[p]) + 1)..Len(new_posts'[p]) :
                    /\ last_search'[p].ok
                    /\ new_posts'[p][i].object_id \notin last_search'[p].failed
         ]_vars

\* A pass skipped a used id, lost a fetch and appended a post.
C15_Witness ==
    /\ pc[1] = "replenishing"
    /\ usedFile # {}
    /\ last_search[1].failed # {}
    /\ new_posts[1] # <<>>

\* C16: the loop is left only for Selecting, a non-empty queue at Selecting
\* goes to the publisher, and a started invocation fails only on an empty
\* queue at Selecting or in the publisher call.
C16_FailuresAbsorbed ==
    [][\A p \in Procs :
         /\ pc[p] = "replenishing" =>
                pc'[p] \in {"replenishing", "selecting"}
         /\ pc[p] = "selecting" /\ queue[p] # <<>> =>
                pc'[p] \in {"selecting", "publishing"}
         /\ pc[p] \notin Ended /\ pc'[p] \in Aborted =>
                \/ pc[p] = "selecting" /\ queue[p] = <<>>
                \/ pc[p] = "publishing"]_vars

\* After a failure of the search source the loop ended with fewer posts than
\* its target, and the head goes to the publisher.
C16_Witness ==
    /\ pc[1] = "publishing"
    /\ faults > 0
    /\ attempts[1] = max_attempts
    /\ Len(new_posts[1]) < NEW_POSTS_TARGET

\* C17: an empty queue at Selecting ends the invocation in failure with no
\* call of the publisher; an invocation ends in success only after one
\* accepted publish and the three writes.
C17_ExitStatus ==
    /\ [](\A p \in Procs :
            /\ pc[p] = "no_posts" =>
                   calls[p] = 0 /\ queue[p] = <<>> /\ today_post[p] = NoPost
            /\ pc[p] \in Aborted => commitWrites[p] = <<>>
            /\ pc[p] = "done" =>
                   /\ calls[p] = 1
                   /\ commitWrites[p] = CommitOrder
                   /\ published # <<>>
                   /\ published[Len(published)] = today_post[p].object_id)
    /\ [][\A p \in Procs :
            pc[p] = "selecting" /\ queue[p] = <<>> /\ pc'[p] # pc[p] =>
                pc'[p] = "no_posts" /\ calls'[p] = 0]_vars

\* The queue is empty at Selecting after earlier invocations published.
C17_Witness ==
    /\ pc[1] = "no_posts"
    /\ published # <<>>

\* C18: an invocation that lacks a credential has made no pass of the loop,
\* has no post, has called no publisher, and the three files are what they
\* were when it started.
C18_NoCredentialsNoWork ==
    \A p \in Procs :
        pc[p] = "no_credentials" =>
            /\ attempts[p] = 0
            /\ new_posts[p] = <<>>
            /\ queue[p] = <<>>
            /\ calls[p] = 0
            /\ last_search[p] = NoSearch
            /\ usedFile = usedFile0[p]
            /\ logFile = logFile0[p]
            /\ queueFile = queueFile0[p]

\* The credentials are missing while the queue file holds a used entry.
C18_Witness ==
    /\ pc[1] = "no_credentials"
    /\ Len(FilterUsed(queueFile, usedFile)) < Len(queueFile)

\* C19: an invocation calls the publisher at most once: none before the
\* head is chosen, one after the call, also when the call failed.
C19_OnePublisherCall ==
    \A p \in Procs :
        /\ calls[p] <= 1
        /\ pc[p] \in BeforePublish => calls[p] = 0
        /\ pc[p] \in AfterSelect \ {"publishing"} => calls[p] = 1

\* The publish failed again in the invocation after a failed publish.
C19_Witness ==
    /\ pc[1] = "publish_failed"
    /\ retry[1] # NoPost
    /\ calls[1] = 1

\* C20: a search that failed was retried: it made more than one request.
C20_FailedSearchRetried ==
    \A p \in Procs :
        pc[p] = "replenishing" /\ ~last_search[p].ok =>
            last_search[p].requests > 1

\* C21: whenever the used file can be read, it holds every id for which
\* mark_used has returned, so that a later invocation reports it as used.
C21_MarkedStaysUsed ==
    fileState["used"] = "ok" =>
        \A id \in marked : is_used(LoadedUsed, id)

\* C26: an invocation that finds the used file or the log file missing or
\* malformed starts with an empty used set or an empty log; one that finds
\* the queue file so has an empty queue and goes on to replenish; and its
\* write of the used file replaces the file by what it holds in memory.
C26_UnreadableLoadsEmpty ==
    [][\A p \in Procs :
         /\ pc[p] \in Ended /\ pc'[p] = "load_queue" =>
                /\ fileState["used"] # "ok" => used_artworks'[p] = {}
                /\ fileState["log"] # "ok" => posting_log'[p] = <<>>
         /\ pc[p] = "load_queue" /\ pc'[p] # "load_queue"
               /\ fileState["queue"] # "ok" =>
                /\ queue'[p] = <<>>
                /\ pc'[p] = "replenishing"
         /\ pc[p] = "mark_used" /\ pc'[p] = "log_post" =>
                /\ fileState'["used"] = "ok"
                /\ usedFile' = used_artworks[p]
                                   \cup {str(today_post[p].object_id)}
      ]_vars

\* An invocation runs with an empty used set while the used file, torn by a
\* kill, still holds bytes of an earlier write.
C26_Witness ==
    /\ pc[1] = "selecting"
    /\ fileState["used"] = "malformed"
    /\ usedFile # {}
    /\ used_artworks[1] = {}
    /\ queue[1] # <<>>

\* C29: every artwork id of the log file is in the used file.
C29_LoggedIsUsed ==
    \A i \in 1..Len(LoadedLog) :
        is_used(LoadedUsed, LoadedLog[i].object_id)

\* The invocation started from the scenario's files and has completed.
ScenarioDone(p) ==
    /\ pc[p] = "done"
    /\ queueFile0[p] = <<StarryNight>>
    /\ usedFile0[p] = {}
    /\ logFile0[p] = <<>>

\* The one log entry of the scenario.
ScenarioLog ==
    <<[post_id |-> 999, object_id |-> 42, artist |-> StarryNight.artist]>>

\* C22 as stated: after the scenario's invocation the used file is {42}, the
\* log file has the one entry of publish id 999 and artwork 42, and the queue
\* file is empty.
C22_ScenarioQueueEmpty ==
    \A p \in Procs :
        ScenarioDone(p) =>
            /\ usedFile = {str(42)}
            /\ logFile = ScenarioLog
            /\ queueFile = <<>>

\* C22 amended: after the scenario's invocation the used file is {42}, the
\* log file has the one entry of publish id 999 and artwork 42, and the queue
\* file holds the posts of the replenishment that the one-entry queue set
\* off: it is empty only when no search gave a usable candidate.
C22_ScenarioAfterRun ==
    \A p \in Procs :
        ScenarioDone(p) =>
            /\ usedFile = {str(42)}
            /\ logFile = ScenarioLog
            /\ attempts[p] > 0
            /\ queueFile = new_posts[p]
            /\ today_post[p] = StarryNight

\* The scenario's invocation has completed after its replenishment found
\* candidates.
C22_Witness ==
    /\ ScenarioDone(1)
    /\ new_posts[1] # <<>>
    /\ published = <<42>>

\* C23: every write replaces the whole file by what the writer holds in
\* memory, whatever the file holds by then; so the queue file can again hold
\* a post that the other invocation has published and popped.
C23_LastWriterWins ==
    [][\A p \in Procs :
         /\ pc[p] = "replenishing" /\ pc'[p] = "selecting" =>
                queueFile' = queue[p] \o new_posts[p]
         /\ pc[p] = "pop" /\ pc'[p] = "done" =>
                queueFile' = Tail(queue[p])
         /\ pc[p] = "mark_used" /\ pc'[p] = "log_post" =>
                usedFile' = used_artworks[p]
                               \cup {str(today_post[p].object_id)}
         /\ pc[p] = "log_post" /\ pc'[p] = "pop" =>
                /\ Len(logFile') = Len(posting_log[p]) + 1
                /\ IsPrefix(posting_log[p], logFile')
      ]_vars

\* The lost queue update: an invocation has published a post and saved a
\* queue without it, and the queue file holds that post again.
C23_Witness ==
    \E p \in Procs :
        /\ pc[p] = "done"
        /\ today_post[p].object_id \notin Range(Ids(queue[p]))
        /\ today_post[p].object_id \in Range(Ids(queueFile))

\* C24: no invocation calls the publisher with an id that is in the used
\* file at the time of the call.
C24_UsedNeverPublished ==
    [][\A p \in Procs :
         pc[p] = "publishing" /\ pc'[p] \in {"mark_used", "publish_failed"} =>
             ~is_used(LoadedUsed, today_post[p].object_id)
      ]_vars

\* C25: when both invocations have completed with different ids, the used
\* file holds both ids.
C25_BothIdsUsed ==
    (/\ pc[1] = "done"
     /\ pc[2] = "done"
     /\ today_post[1].object_id # today_post[2].object_id) =>
        /\ is_used(LoadedUsed, today_post[1].object_id)
        /\ is_used(LoadedUsed, today_post[2].object_id)

\* The sleeps before attempts 2 .. k + 1: 1, 2, 4, ...
Backoff(k) == [i \in 1..k |-> 2 ^ (i - 1)]

\* The attempts of the call, in order, that succeed.
Successes(call) == {i \in 1..call.max_retries : call.outcomes[i]}

\* C27: a call of query_wikidata makes at most max_retries requests; it
\* stops at its first successful request and returns its bindings, having
\* slept 1, 2, ... seconds after each failed request before it; when every
\* request fails it has made max_retries requests, has slept after each but
\* the last, and returns None.
C27_QueryWikidataRetries ==
    LET call == last_query
        first == CHOOSE i \in Successes(call) :
                     \A j \in Successes(call) : i <= j
    IN  /\ call.requests <= call.max_retries
        /\ call.result \in {"bindings", "None"}
        /\ Successes(call) # {} =>
               /\ call.requests = first
               /\ call.result = "bindings"
               /\ call.sleeps = Backoff(first - 1)
        /\ Successes(call) = {} =>
               /\ call.requests = call.max_retries
               /\ call.result = "None"
               /\ Len(call.sleeps) = IF call.max_retries = 0 THEN 0
                                      ELSE call.max_retries - 1
               /\ call.sleeps = Backoff(Len(call.sleeps))

\* The three requests of a call with the default max_retries failed.
C27_Witness ==
    /\ last_query.max_retries = 3
    /\ last_query.requests = 3
    /\ last_query.sleeps = <<1, 2>>
    /\ last_query.result = "None"

\* C28: none of the three term lists holds an entry twice or an empty entry.
C28_TermListsDuplicateFree ==
    \A list \in {database.search_queries, database.movements,
                  database.themes} :
        /\ NoDuplicates(list)
        /\ "" \notin Range(list)

\* C30: the queue file never holds more than LOW_QUEUE - 1 entries that were
\* there plus NEW_POSTS_TARGET new ones; only the save of a replenishment
\* makes it longer, and an invocation that has not replenished leaves it no
\* longer than it found it.
C30_QueueBounded ==
    /\ [](Len(queueFile) <= (LOW_QUEUE - 1) + NEW_POSTS_TARGET)
    /\ [](\A p \in Procs :
            /\ attempts[p] > 0 =>
                   /\ Len(Kept(p)) <= LOW_QUEUE - 1
                   /\ Len(new_posts[p]) <= NEW_POSTS_TARGET
            /\ pc[p] # "idle" /\ attempts[p] = 0 =>
                   Len(queueFile) <= Len(queueFile0[p]))
    /\ [][\A p \in Procs :
            Len(queueFile') > Len(queueFile) =>
                \E q \in Procs :
                    /\ pc[q] = "replenishing"
                    /\ pc'[q] = "selecting"
                    /\ queueFile' = Kept(q) \o new_posts[q]]_vars

\* A replenishment that kept an entry of the queue has saved a longer queue.
C30_Witness ==
    /\ pc[1] = "selecting"
    /\ attempts[1] > 0
    /\ Len(Kept(1)) >= 1
    /\ Len(new_posts[1]) >= 2
    /\ Len(queueFile) > Len(queueFile0[1])

====
